---- MODULE Spec2Model ----
(***************************************************************************)
(* Model of the akita mapping facade (src/src/fuse.rs): the Akita struct,  *)
(* its AkitaMapper implementation, the connection pool it draws from and   *)
(* the statements it sends to the Database executor.                       *)
(*                                                                         *)
(* A call of a mapper operation is one action.  The operation is written   *)
(* as a pure operator that yields the steps the call performs in order     *)
(* (acquire a connection, send a statement, drop a connection) and the     *)
(* value it returns when no step fails; Run cuts the steps at the first    *)
(* step the pool or the executor fails, as the `?` operator does.          *)
(***************************************************************************)
EXTENDS Integers, Sequences, FiniteSets, TLC

(***************************************************************************)
(* Bounds of the model.                                                    *)
(***************************************************************************)
MaxFields == 2      \* fields of an entity descriptor
MaxPreds == 1       \* predicate fragments of a wrapper
MaxIds == 2         \* ids handed to remove_by_ids
MaxBatch == 2       \* entities handed to a batch save

(***************************************************************************)
(* Value: the tagged union bound as a parameter.  v holds the digits of    *)
(* the value: one number for Int, the comma-joined renderings for Text.    *)
(***************************************************************************)
Nil == [tag |-> "Nil", v |-> <<>>]
IntV(n) == [tag |-> "Int", v |-> <<n>>]
TextV(s) == [tag |-> "Text", v |-> s]
Values == {Nil, IntV(1)}
FillValue == IntV(7)

\* Option<T>: None is the empty sequence, Some(x) the one-element sequence
None == <<>>
Some(x) == <<x>>

(***************************************************************************)
(* EntityDescriptor: T::table_name() and T::fields().                      *)
(***************************************************************************)
ColName(i) == <<"c1", "c2", "c3", "c4", "c5">>[i]

FieldPool ==
  { [field_type |-> "TableId",    exist |-> TRUE,  fill |-> None],
    [field_type |-> "TableField", exist |-> TRUE,  fill |-> None],
    [field_type |-> "TableField", exist |-> FALSE, fill |-> None],
    [field_type |-> "TableField", exist |-> TRUE,
     fill |-> Some([mode |-> "insert", value |-> Some(FillValue)])],
    [field_type |-> "TableField", exist |-> TRUE,
     fill |-> Some([mode |-> "update", value |-> Some(FillValue)])],
    [field_type |-> "TableField", exist |-> TRUE,
     fill |-> Some([mode |-> "default", value |-> Some(FillValue)])] }

FieldMeta(i, t) ==
  [name |-> ColName(i), exist |-> t.exist, field_type |-> t.field_type, fill |-> t.fill]

IsTableId(f) == f.field_type = "TableId"

\* the field lists of at most MaxFields fields with at most one identifier
FieldLists ==
  UNION { { [i \in 1..n |-> FieldMeta(i, ts[i])] : ts \in [1..n -> FieldPool] } : n \in 0..MaxFields }

Descriptors ==
  { [table |-> t, fields |-> fs] :
      t \in {"", "t_user"},
      fs \in { g \in FieldLists : Cardinality({i \in 1..Len(g) : IsTableId(g[i])}) <= 1 } }

complete_name(table) == table

\* columns.iter().find(|field| TableId): the first identifier field, if any
RECURSIVE FindFrom(_, _)
FindFrom(fs, i) ==
  IF i > Len(fs) THEN None
  ELSE IF IsTableId(fs[i]) THEN Some(fs[i])
  ELSE FindFrom(fs, i + 1)

\* variant: the first field is taken for the identifier
find_id_first(fs) == IF Len(fs) > 0 THEN Some(fs[1]) ELSE None

find_id(fs) == FindFrom(fs, 1)

(***************************************************************************)
(* Entity instance: entity.to_value() is an ordered mapping name -> Value, *)
(* a sequence of [k, v] pairs.                                             *)
(***************************************************************************)
RECURSIVE GetFrom(_, _, _)
GetFrom(data, col, i) ==
  IF i > Len(data) THEN None
  ELSE IF data[i].k = col THEN Some(data[i].v)
  ELSE GetFrom(data, col, i + 1)

get_obj_value(data, col) == GetFrom(data, col, 1)

keys(data) == [i \in 1..Len(data) |-> data[i].k]

\* the instances of an entity type with n fields: every field's key is
\* absent or holds one of Values
RECURSIVE EntitiesUpTo(_)
EntitiesUpTo(n) ==
  IF n = 0 THEN {<<>>}
  ELSE LET rest == EntitiesUpTo(n - 1)
       IN rest \cup { Append(e, [k |-> ColName(n), v |-> x]) : e \in rest, x \in Values }

(***************************************************************************)
(* SQL text, as the sequence of its tokens left to right.  A placeholder   *)
(* token carries its number: 0 is the un-numbered `?`, n > 0 is `$n`.      *)
(***************************************************************************)
Kw(s) == [k |-> "kw", s |-> s, n |-> 0]
Tbl(t) == [k |-> "tbl", s |-> t, n |-> 0]
Col(c) == [k |-> "col", s |-> c, n |-> 0]
Ph(n) == [k |-> "ph", s |-> "", n |-> n]
Num(n) == [k |-> "num", s |-> "", n |-> n]

IsPh(tok) == tok.k = "ph"

\* the placeholders of a statement, left to right
Placeholders(sql) == SelectSeq(sql, IsPh)

\* xs.join(sep) over token groups
RECURSIVE Join(_, _)
Join(parts, sep) ==
  IF Len(parts) = 0 THEN <<>>
  ELSE IF Len(parts) = 1 THEN parts[1]
  ELSE parts[1] \o sep \o Join(Tail(parts), sep)

Comma == <<Kw(",")>>

(***************************************************************************)
(* Wrapper: the condition builder.  preds are the predicate fragments in   *)
(* call order, fields_set the set-clauses, select the projection.          *)
(***************************************************************************)
FragPool ==
  { [col |-> "c1", op |-> "eq", vals |-> <<IntV(1)>>],
    [col |-> "c2", op |-> "between", vals |-> <<IntV(1), IntV(2)>>] }

PredLists == UNION { [1..n -> FragPool] : n \in 0..MaxPreds }

SetLists == { <<>>, <<[col |-> "c1", val |-> IntV(2)]>> }

QueryWrappers ==
  { [preds |-> p, fields_set |-> <<>>, select |-> s] : p \in PredLists, s \in {<<>>, <<"c1">>} }

\* the wrappers handed to update: at most one predicate, at most one set-clause
UpdateWrappers ==
  { [preds |-> p, fields_set |-> fs, select |-> <<>>] :
      p \in {<<>>} \cup { <<f>> : f \in FragPool }, fs \in SetLists }

NoWrapper == [preds |-> <<>>, fields_set |-> <<>>, select |-> <<>>]

\* one predicate fragment rendered with un-numbered placeholders
Fragment(f) ==
  CASE f.op = "eq" -> <<Col(f.col), Kw("="), Ph(0)>>
    [] f.op = "between" -> <<Col(f.col), Kw("between"), Ph(0), Kw("and"), Ph(0)>>

\* Wrapper::get_sql_segment: the fragments in order, joined by AND
get_sql_segment(w) ==
  Join([i \in 1..Len(w.preds) |-> Fragment(w.preds[i])], <<Kw("and")>>)

\* the values the fragments bind, in fragment order
RECURSIVE SegmentParams(_)
SegmentParams(preds) ==
  IF Len(preds) = 0 THEN <<>> ELSE preds[1].vals \o SegmentParams(Tail(preds))

\* Wrapper::get_select_sql: the projection, `*` when none was chosen
get_select_sql(w) ==
  IF Len(w.select) = 0 THEN <<Kw("*")>>
  ELSE Join([i \in 1..Len(w.select) |-> <<Col(w.select[i])>>], Comma)

(***************************************************************************)
(* The steps of a call.  A connection is named by the slot (the local      *)
(* variable) that holds it: acq binds the slot to a pooled connection,     *)
(* exec sends a statement on it, rel is the drop of the local at the end   *)
(* of its scope.                                                           *)
(***************************************************************************)
\* what the executor answers when the statement succeeds: the rows, or the
\* count it leaves on the connection (COUNT(1), affected rows)
NoAns == [num |-> 0, rows |-> <<>>]
Rows(rows) == [num |-> 0, rows |-> rows]
Count(n) == [num |-> n, rows |-> <<>>]

Acq(slot) == [e |-> "acq", slot |-> slot, sql |-> <<>>, params |-> <<>>, ans |-> NoAns]
Exec(slot, sql, params, ans) ==
  [e |-> "exec", slot |-> slot, sql |-> sql, params |-> params, ans |-> ans]
Rel(slot) == [e |-> "rel", slot |-> slot, sql |-> <<>>, params |-> <<>>, ans |-> NoAns]

\* the locals of a call that hold a connection; the connections of the pool
SlotIds == {1, 2}
Conns == {1, 2}

\* the result of a call: Ok(..) with a count (num) and/or rows, or Err(kind)
Ok(num, rows) == [ok |-> TRUE, err |-> "", msg |-> "", num |-> num, rows |-> rows, sql |-> <<>>]
OkSql(sql) == [ok |-> TRUE, err |-> "", msg |-> "", num |-> 0, rows |-> <<>>, sql |-> sql]
Err(kind, msg) == [ok |-> FALSE, err |-> kind, msg |-> msg, num |-> 0, rows |-> <<>>, sql |-> <<>>]

Event(step, conn, ok) ==
  [e |-> step.e, conn |-> conn, sql |-> step.sql, params |-> step.params, ok |-> ok,
   ans |-> IF ok THEN step.ans ELSE NoAns]

\* the locals still holding a connection are dropped, last declared first
RECURSIVE DropAll(_, _)
DropAll(held, pick) ==
  IF held = {} THEN <<>>
  ELSE LET m == CHOOSE x \in held : \A y \in held : y <= x
       IN <<Event(Rel(m), pick[m], TRUE)>> \o DropAll(held \ {m}, pick)

\* runs the steps from step i on; k counts the calls made to the pool and
\* the executor so far, and the failAt-th of them fails (0: none does).
\* An acquire also fails when the pool has no idle connection left.
\* valid: every acquire was given a connection that was idle.
RECURSIVE RunFrom(_, _, _, _, _, _, _, _)
RunFrom(prog, i, k, failAt, pick, idle, held, acc) ==
  IF i > Len(prog)
  THEN [log |-> acc, err |-> "", valid |-> TRUE, idle |-> idle]
  ELSE
    LET step == prog[i]
        c == pick[step.slot]
        dropped == idle \cup { pick[x] : x \in held }
    IN CASE step.e = "rel" ->
              RunFrom(prog, i + 1, k, failAt, pick, idle \cup {c}, held \ {step.slot},
                      Append(acc, Event(step, c, TRUE)))
         [] step.e = "acq" ->
              IF k + 1 = failAt \/ idle = {}
              THEN [log |-> Append(acc, Event(step, 0, FALSE)) \o DropAll(held, pick),
                    err |-> "R2D2Error",
                    valid |-> TRUE, idle |-> dropped]
              ELSE IF c \notin idle
              THEN [log |-> acc, err |-> "", valid |-> FALSE, idle |-> idle]
              ELSE RunFrom(prog, i + 1, k + 1, failAt, pick, idle \ {c},
                           held \cup {step.slot}, Append(acc, Event(step, c, TRUE)))
         [] step.e = "exec" ->
              IF k + 1 = failAt
              THEN [log |-> Append(acc, Event(step, c, FALSE)) \o DropAll(held, pick),
                    err |-> "ExecuteSqlError", valid |-> TRUE, idle |-> dropped]
              ELSE RunFrom(prog, i + 1, k + 1, failAt, pick, idle, held,
                           Append(acc, Event(step, c, TRUE)))

\* variant: a statement the executor refused is sent once more
Run_retry(prog, failAt, pick, idle) ==
  LET r == RunFrom(prog, 1, 0, failAt, pick, idle, {}, <<>>)
      refused == { i \in 1..Len(r.log) : r.log[i].e = "exec" /\ ~r.log[i].ok }
      at == CHOOSE i \in refused : TRUE
  IN IF refused = {} THEN r
     ELSE [r EXCEPT !.log = SubSeq(r.log, 1, at) \o <<r.log[at]>>
                             \o SubSeq(r.log, at + 1, Len(r.log))]

Run(prog, failAt, pick, idle) == RunFrom(prog, 1, 0, failAt, pick, idle, {}, <<>>)

\* the calls a run of the steps makes to the pool and the executor
External(prog) == Len(SelectSeq(prog, LAMBDA st : st.e # "rel"))

(***************************************************************************)
(* State.                                                                  *)
(***************************************************************************)
VARIABLES
  desc,      \* the descriptor of the entity type T (static)
  dialect,   \* the DatabasePlatform of the pool: "Mysql" or "Sqlite"
  free,      \* the idle connections of the pool
  conn_tx,   \* the connections on which a transaction is open
  txn,       \* the AkitaTransaction handle the caller holds, if any
  pc,        \* "idle": no call in progress; "returned": a call has returned
  call,      \* the operation called last and its arguments
  log,       \* what the call did: connections acquired and dropped, statements sent
  ret        \* what the call returned

vars == <<desc, dialect, free, conn_tx, txn, pc, call, log, ret>>

columns == desc.fields
col_len == Len(columns)
table == desc.table

RowSets == { <<>>, <<IntV(3), IntV(4)>> }

\* rows.iter().next().map(from_value)
first(rows) == IF Len(rows) = 0 THEN None ELSE Some(rows[1])

MissingTable == Err("MissingTable", "Find Error, Missing Table Name !")
MissingIdent == Err("MissingIdent", "Missing Ident...")
MissingIdentValue == Err("MissingIdent", "Missing Ident value...")
DataError == Err("DataError", "data cannot be empty")

Body(prog, r) == [prog |-> prog, ret |-> r]

\* the placeholder of the i-th parameter: `?` for Mysql, `$i` for Sqlite
placeholder(i) == IF dialect = "Mysql" THEN Ph(0) ELSE Ph(i)

\* columns.iter().filter(|f| f.exist).map(|c| `name`).join(", ")
enumerated_columns ==
  LET ex == SelectSeq(columns, LAMBDA f : f.exist)
  IN Join([i \in 1..Len(ex) |-> <<Col(ex[i].name)>>], Comma)

\* the projection of the wrapper, the existing columns when it is `*`
select_columns(w) ==
  LET select_fields == get_select_sql(w)
  IN IF select_fields = <<Kw("*")>> THEN enumerated_columns ELSE select_fields

\* variant: the keyword is written whatever the segment holds
where_condition_always(w) ==
  <<Kw("WHERE")>> \o get_sql_segment(w)

\* the WHERE clause of the wrapper; nothing when the segment is empty
where_condition(w) ==
  LET seg == get_sql_segment(w)
  IN IF Len(seg) = 0 THEN <<>> ELSE <<Kw("WHERE")>> \o seg

\* exec_iter: acquire a connection, send the statement, drop the connection
exec_iter_steps(slot, sql, params, ans) == <<Acq(slot), Exec(slot, sql, params, ans), Rel(slot)>>

\* exec_first: exec_iter and the first row decoded
exec_first_steps(slot, sql, params, ans) == exec_iter_steps(slot, sql, params, ans)

list_body(w, rows) ==
  IF complete_name(table) = "" THEN Body(<<>>, MissingTable)
  ELSE LET sql == <<Kw("SELECT")>> \o select_columns(w) \o <<Kw("FROM"), Tbl(complete_name(table))>>
                  \o where_condition(w)
       IN Body(<<Acq(1), Exec(1, sql, <<>>, Rows(rows)), Rel(1)>>, Ok(0, rows))

select_one_body(w, rows) ==
  IF complete_name(table) = "" THEN Body(<<>>, MissingTable)
  ELSE LET sql == <<Kw("SELECT")>> \o select_columns(w) \o <<Kw("FROM"), Tbl(complete_name(table))>>
                  \o where_condition(w)
       IN Body(<<Acq(1), Exec(1, sql, <<>>, Rows(rows)), Rel(1)>>, Ok(0, first(rows)))

select_by_id_body(id, rows) ==
  IF complete_name(table) = "" THEN Body(<<>>, MissingTable)
  ELSE LET found == find_id(columns)
       IN IF found # None
          THEN LET field == found[1]
                   sql == <<Kw("SELECT")>> \o enumerated_columns
                          \o <<Kw("FROM"), Tbl(complete_name(table)), Kw("WHERE"), Col(field.name),
                               Kw("="), placeholder(col_len + 1), Kw("limit"), Num(1)>>
               IN Body(<<Acq(1), Exec(1, sql, <<id>>, Rows(rows)), Rel(1)>>, Ok(0, first(rows)))
          ELSE Body(<<Acq(1), Rel(1)>>, MissingIdent)

\* IPage::offset: (page - 1) * size, page 1 when page < 1
offset(page, size) == IF page >= 1 THEN (page - 1) * size ELSE 0

\* variant: the rows are fetched whatever the count is
page_always_fetch(page, size, w, cnt, rows) ==
  IF complete_name(table) = "" THEN Body(<<>>, MissingTable)
  ELSE LET count_sql == <<Kw("select count(1) as count from"), Tbl(complete_name(table))>>
                        \o where_condition(w)
           sql == <<Kw("SELECT")>> \o select_columns(w) \o <<Kw("FROM"), Tbl(complete_name(table))>>
                  \o where_condition(w) \o <<Kw("limit"), Num(offset(page, size)), Kw(","), Num(size)>>
       IN Body(exec_first_steps(1, count_sql, <<>>, Count(cnt))
               \o <<Acq(2), Exec(2, sql, <<>>, Rows(rows)), Rel(2)>>,
               Ok(cnt, rows))

page_body(page, size, w, cnt, rows) ==
  IF complete_name(table) = "" THEN Body(<<>>, MissingTable)
  ELSE LET count_sql == <<Kw("select count(1) as count from"), Tbl(complete_name(table))>>
                        \o where_condition(w)
           sql == <<Kw("SELECT")>> \o select_columns(w) \o <<Kw("FROM"), Tbl(complete_name(table))>>
                  \o where_condition(w) \o <<Kw("limit"), Num(offset(page, size)), Kw(","), Num(size)>>
       IN IF cnt > 0
          THEN Body(exec_first_steps(1, count_sql, <<>>, Count(cnt))
                    \o <<Acq(2), Exec(2, sql, <<>>, Rows(rows)), Rel(2)>>,
                    Ok(cnt, rows))
          ELSE Body(exec_first_steps(1, count_sql, <<>>, Count(cnt)), Ok(cnt, <<>>))

count_body(w, cnt) ==
  IF complete_name(table) = "" THEN Body(<<>>, MissingTable)
  ELSE LET sql == <<Kw("SELECT COUNT(1) AS count FROM"), Tbl(complete_name(table))>>
                  \o where_condition(w)
       IN Body(exec_first_steps(1, sql, <<>>, Count(cnt)), Ok(cnt, <<>>))

\* variant: the connection goes back to the pool before the count is read,
\* and the count is read through the pool
remove_reads_apart(w, affected) ==
  IF complete_name(table) = "" THEN Body(<<>>, MissingTable)
  ELSE LET sql == <<Kw("delete from"), Tbl(complete_name(table))>> \o where_condition(w)
       IN Body(<<Acq(1), Exec(1, sql, <<>>, Count(affected)), Rel(1), Acq(2), Rel(2)>>,
               Ok(affected, <<>>))

remove_body(w, affected) ==
  IF complete_name(table) = "" THEN Body(<<>>, MissingTable)
  ELSE LET sql == <<Kw("delete from"), Tbl(complete_name(table))>> \o where_condition(w)
       IN Body(<<Acq(1), Exec(1, sql, <<>>, Count(affected)), Rel(1)>>, Ok(affected, <<>>))

remove_by_id_body(id, affected) ==
  IF complete_name(table) = "" THEN Body(<<>>, MissingTable)
  ELSE LET found == find_id(columns)
       IN IF found # None
          THEN LET field == found[1]
                   sql == <<Kw("delete from"), Tbl(table), Kw("where"), Col(field.name),
                            Kw("="), placeholder(col_len + 1)>>
               IN Body(<<Acq(1), Exec(1, sql, <<id>>, Count(affected)), Rel(1)>>, Ok(affected, <<>>))
          ELSE Body(<<Acq(1), Rel(1)>>, MissingIdent)

\* v.to_value().to_string() of every id, joined by ","
RECURSIVE join_ids(_)
join_ids(ids) == IF Len(ids) = 0 THEN <<>> ELSE ids[1].v \o join_ids(Tail(ids))

remove_by_ids_body(ids, affected) ==
  IF complete_name(table) = "" THEN Body(<<>>, MissingTable)
  ELSE LET found == find_id(columns)
       IN IF found # None
          THEN LET field == found[1]
                   sql == <<Kw("delete from"), Tbl(table), Kw("where"), Col(field.name),
                            Kw("in"), Kw("("), placeholder(col_len + 1), Kw(")")>>
               IN Body(<<Acq(1), Exec(1, sql, <<TextV(join_ids(ids))>>, Count(affected)), Rel(1)>>,
                       Ok(affected, <<>>))
          ELSE Body(<<Acq(1), Rel(1)>>, MissingIdent)

\* the value bound for a column: the instance's value, overridden by the
\* fill rule when its mode is one of modes; Nil when there is none
\* variant: the fill rule only fills a value the instance lacks
bind_value_keep_own(col, data, modes) ==
  LET own == get_obj_value(data, col.name)
      value == IF own = None /\ col.fill # None /\ col.fill[1].mode \in modes
               THEN col.fill[1].value ELSE own
  IN IF value # None THEN value[1] ELSE Nil

bind_value(col, data, modes) ==
  LET own == get_obj_value(data, col.name)
      value == IF col.fill # None /\ col.fill[1].mode \in modes THEN col.fill[1].value ELSE own
  IN IF value # None THEN value[1] ELSE Nil

\* the existing plain (non-identifier) columns, in descriptor order
plain_columns == SelectSeq(columns, LAMBDA c : c.exist /\ c.field_type = "TableField")

\* the values update and update_by_id bind for the SET clause
update_values(data) ==
  [i \in 1..Len(plain_columns) |-> bind_value(plain_columns[i], data, {"update", "default"})]

\* the values save and save_batch bind for one entity: one per column
insert_values(data) ==
  [i \in 1..col_len |-> bind_value(columns[i], data, {"insert", "default"})]

RECURSIVE batch_values(_)
batch_values(entities) ==
  IF Len(entities) = 0 THEN <<>>
  ELSE insert_values(entities[1]) \o batch_values(Tail(entities))

\* the placeholders of the where segment numbered on from k for Sqlite
RECURSIVE renumber(_, _)
renumber(seg, k) ==
  IF Len(seg) = 0 THEN <<>>
  ELSE IF IsPh(seg[1]) THEN <<placeholder(k + 1)>> \o renumber(Tail(seg), k + 1)
  ELSE <<seg[1]>> \o renumber(Tail(seg), k)

\* manager::build_update_clause: the set-clauses of the wrapper, or every
\* existing plain column when it has none, then the wrapper's WHERE
build_update_clause(w) ==
  LET set_cols == IF Len(w.fields_set) > 0
                  THEN [i \in 1..Len(w.fields_set) |-> w.fields_set[i].col]
                  ELSE [i \in 1..Len(plain_columns) |-> plain_columns[i].name]
      sets == Join([i \in 1..Len(set_cols) |-> <<Col(set_cols[i]), Kw("="), placeholder(i)>>], Comma)
      seg == renumber(get_sql_segment(w), Len(set_cols))
  IN <<Kw("update"), Tbl(complete_name(table)), Kw("set")>> \o sets
     \o (IF Len(seg) = 0 THEN <<>> ELSE <<Kw("where")>> \o seg)

\* variant: the numbering restarts in every tuple
value_tuples_restart(n, cols) ==
  Join([y \in 1..n |->
          <<Kw("(")>> \o Join([x \in 1..cols |-> <<placeholder(x)>>], Comma)
          \o <<Kw(")")>>], Comma)

\* one value tuple per entity over cols columns, numbered across tuples
value_tuples(n, cols) ==
  Join([y \in 1..n |->
          <<Kw("(")>> \o Join([x \in 1..cols |-> <<placeholder((y - 1) * cols + x)>>], Comma)
          \o <<Kw(")")>>], Comma)

\* manager::build_insert_clause: the existing columns in descriptor order
build_insert_clause(entities) ==
  LET ex == SelectSeq(columns, LAMBDA f : f.exist)
  IN <<Kw("INSERT INTO"), Tbl(complete_name(table)), Kw("(")>>
     \o Join([i \in 1..Len(ex) |-> <<Col(ex[i].name)>>], Comma)
     \o <<Kw(")"), Kw("VALUES")>> \o value_tuples(Len(entities), Len(ex))

\* variant: the entity's values are bound whatever the wrapper sets
update_binds_entity(entity, w, affected) ==
  IF complete_name(table) = "" THEN Body(<<>>, MissingTable)
  ELSE Body(<<Acq(1), Exec(1, build_update_clause(w), update_values(entity), Count(affected)),
              Rel(1)>>,
            Ok(affected, <<>>))

update_body(entity, w, affected) ==
  IF complete_name(table) = "" THEN Body(<<>>, MissingTable)
  ELSE LET sql == build_update_clause(w)
           params == IF Len(w.fields_set) = 0 THEN update_values(entity) ELSE <<>>
       IN Body(<<Acq(1), Exec(1, sql, params, Count(affected)), Rel(1)>>, Ok(affected, <<>>))

update_by_id_body(entity, affected) ==
  IF complete_name(table) = "" THEN Body(<<>>, MissingTable)
  ELSE LET found == find_id(columns)
       IN IF found # None
          THEN LET field == found[1]
                   set_fields == Join([x \in 1..Len(plain_columns) |->
                                         <<Col(plain_columns[x].name), Kw("="), placeholder(x)>>], Comma)
                   sql == <<Kw("update"), Tbl(table), Kw("set")>> \o set_fields
                          \o <<Kw("where"), Col(field.name), Kw("="), placeholder(col_len + 1)>>
                   id == get_obj_value(entity, field.name)
               IN IF id # None
                  THEN Body(<<Acq(1), Exec(1, sql, Append(update_values(entity), id[1]), Count(affected)),
                              Rel(1)>>,
                            Ok(affected, <<>>))
                  ELSE Body(<<Acq(1), Rel(1)>>, MissingIdentValue)
          ELSE Body(<<Acq(1), Rel(1)>>, MissingIdent)

save_batch_body(entities) ==
  Body(<<Acq(1), Exec(1, build_insert_clause(entities), batch_values(entities), NoAns), Rel(1)>>,
       Ok(0, <<>>))

last_insert_sql ==
  IF dialect = "Mysql" THEN <<Kw("SELECT LAST_INSERT_ID();")>>
  ELSE <<Kw("SELECT LAST_INSERT_ROWID();")>>

\* variant: the identifier is read on a connection acquired for the read
save_read_apart(entity, rows) ==
  Body(<<Acq(1), Exec(1, build_insert_clause(<<entity>>), insert_values(entity), NoAns), Rel(1),
         Acq(2), Exec(2, last_insert_sql, <<>>, Rows(rows)), Rel(2)>>,
       Ok(0, first(rows)))

save_body(entity, rows) ==
  Body(<<Acq(1), Exec(1, build_insert_clause(<<entity>>), insert_values(entity), NoAns),
         Exec(1, last_insert_sql, <<>>, Rows(rows)), Rel(1)>>,
       Ok(0, first(rows)))

\* the identifier save_or_update decides on: Nil without an identifier
\* field or without an entry for it
\* variant: an identifier that cannot be read does not count as Nil
entity_id_unread(entity) ==
  LET found == find_id(columns)
  IN IF found # None
     THEN LET v == get_obj_value(entity, found[1].name)
          IN IF v # None THEN v[1] ELSE IntV(1)
     ELSE IntV(1)

entity_id(entity) ==
  LET found == find_id(columns)
  IN IF found # None
     THEN LET v == get_obj_value(entity, found[1].name)
          IN IF v # None THEN v[1] ELSE Nil
     ELSE Nil

\* variant: the update path answers with the last inserted identifier
save_or_update_last_id(entity, rows, affected) ==
  LET id == entity_id(entity)
  IN IF id = Nil THEN save_body(entity, rows)
     ELSE LET u == update_by_id_body(entity, affected)
          IN Body(u.prog, IF u.ret.ok THEN Ok(0, first(rows)) ELSE u.ret)

save_or_update_body(entity, rows, affected) ==
  LET id == entity_id(entity)
  IN IF id = Nil THEN save_body(entity, rows)
     ELSE LET u == update_by_id_body(entity, affected)
          IN Body(u.prog, IF u.ret.ok THEN Ok(0, Some(id)) ELSE u.ret)

\* the value of every column of the list for one mapping, Nil when absent
\* variant: a column the entity lacks binds nothing
map_values_skip(cols, data) ==
  LET present == SelectSeq(cols, LAMBDA col : get_obj_value(data, col) # None)
  IN [i \in 1..Len(present) |-> get_obj_value(data, present[i])[1]]

map_values(cols, data) ==
  [i \in 1..Len(cols) |->
     LET value == get_obj_value(data, cols[i]) IN IF value # None THEN value[1] ELSE Nil]

RECURSIVE map_batch_values(_, _)
map_batch_values(cols, entities) ==
  IF Len(entities) = 0 THEN <<>>
  ELSE map_values(cols, entities[1]) \o map_batch_values(cols, Tail(entities))

\* Akita::build_insert_clause_map: acquires a connection to learn the
\* platform, which is dropped when the function returns
build_insert_clause_map_body(tbl, entities) ==
  IF Len(entities) = 0 THEN Body(<<Acq(1), Rel(1)>>, DataError)
  ELSE LET cols == keys(entities[1])
           sql == <<Kw("INSERT INTO"), Tbl(tbl), Kw("(")>>
                  \o Join([i \in 1..Len(cols) |-> <<Col(cols[i])>>], Comma)
                  \o <<Kw(")"), Kw("VALUES")>> \o value_tuples(Len(entities), Len(cols))
       IN Body(<<Acq(1), Rel(1)>>, OkSql(sql))

save_map_body(tbl, entity) ==
  LET cols == keys(entity)
      b == build_insert_clause_map_body(tbl, <<entity>>)
  IN IF b.ret.ok
     THEN Body(b.prog \o <<Acq(2), Exec(2, b.ret.sql, map_values(cols, entity), NoAns), Rel(2)>>,
               Ok(0, <<>>))
     ELSE Body(b.prog, b.ret)

save_map_batch_body(tbl, entities) ==
  IF Len(entities) = 0 THEN Body(<<>>, DataError)
  ELSE LET cols == keys(entities[1])
           b == build_insert_clause_map_body(tbl, entities)
       IN IF b.ret.ok
          THEN Body(b.prog \o <<Acq(2), Exec(2, b.ret.sql, map_batch_values(cols, entities), NoAns),
                              Rel(2)>>,
                    Ok(0, <<>>))
          ELSE Body(b.prog, b.ret)

\* the segment of the value of a set-clause: a single un-numbered marker
value_segment(val) == <<Ph(0)>>

\* Akita::build_update_clause: acquires a connection to learn the platform;
\* the set-clauses of the wrapper, numbered from 1 on Sqlite, then the
\* wrapper's segment as the wrapper rendered it
akita_build_update_clause_body(tbl, w) ==
  LET sets == Join([x \in 1..Len(w.fields_set) |->
                      <<Col(w.fields_set[x].col), Kw("=")>>
                      \o (IF dialect = "Mysql" THEN value_segment(w.fields_set[x].val)
                          ELSE <<Ph(x)>>)], Comma)
      where_cond == get_sql_segment(w)
      sql == <<Kw("update"), Tbl(tbl), Kw("set")>> \o sets
             \o (IF Len(where_cond) = 0 THEN <<>> ELSE <<Kw("where")>> \o where_cond)
  IN Body(<<Acq(1), Rel(1)>>, OkSql(sql))

\* Akita::start_transaction: the local conn is dropped when the function
\* returns; the handle keeps a reference to the Akita, not the connection
start_transaction_body ==
  Body(<<Acq(1), Exec(1, <<Kw("START TRANSACTION")>>, <<>>, NoAns), Rel(1)>>, Ok(0, <<>>))

(***************************************************************************)
(* Arguments of the calls.                                                 *)
(***************************************************************************)
Entities == EntitiesUpTo(col_len)

\* the entities of a batch: every key present with the same value, or the
\* first key absent
BatchPool ==
  { e \in Entities :
      \/ Len(e) = col_len /\ \A i \in 1..Len(e) : e[i].v = e[1].v
      \/ Len(e) = col_len - 1 /\ \A i \in 1..Len(e) : e[i].k # ColName(1) /\ e[i].v = IntV(1) }
Batches == UNION { [1..n -> BatchPool] : n \in 0..MaxBatch }
Ids == { IntV(1), IntV(2) }
IdLists == UNION { [1..n -> Ids] : n \in 0..MaxIds }
\* answers of the executor to COUNT(1) and affected_rows; page numbers and sizes
Counts == { 0, 2 }
Pages == { 1, 2 }
PageSizes == { 10 }

Args(op) ==
  [op |-> op, entities |-> <<>>, w |-> NoWrapper, ids |-> <<>>, page |-> 0, size |-> 0, tbl |-> "",
   url |-> <<>>, after |-> ""]

NoCall == Args("")
NoRet == Err("", "")

Init ==
  /\ desc \in Descriptors
  /\ dialect \in {"Mysql", "Sqlite"}
  /\ free = Conns
  /\ conn_tx = {}
  /\ txn = None
  /\ pc = "idle"
  /\ call = NoCall
  /\ log = <<>>
  /\ ret = NoRet

Slots(prog) == { prog[i].slot : i \in 1..Len(prog) }

\* a call: its steps run until the first failure of the pool or the
\* executor; every acquire is given some idle connection of the pool
Invoke(args, body) ==
  /\ pc = "idle"
  /\ \E failAt \in 0..External(body.prog) :
     \E pick \in { f \in [SlotIds -> Conns] : \A x \in SlotIds \ Slots(body.prog) : f[x] = 1 } :
       LET r == Run(body.prog, failAt, pick, free)
       IN /\ r.valid
          /\ log' = r.log
          /\ ret' = IF r.err = "" THEN body.ret ELSE Err(r.err, "")
          /\ free' = r.idle
  /\ call' = args
  /\ pc' = "returned"
  /\ UNCHANGED <<desc, dialect>>

Mapper(args, body) == Invoke(args, body) /\ UNCHANGED <<conn_tx, txn>>

list ==
  /\ pc = "idle"
  /\ \E w \in QueryWrappers, rows \in RowSets :
       Mapper([Args("list") EXCEPT !.w = w], list_body(w, rows))

select_one ==
  /\ pc = "idle"
  /\ \E w \in QueryWrappers, rows \in RowSets :
       Mapper([Args("select_one") EXCEPT !.w = w], select_one_body(w, rows))

select_by_id ==
  /\ pc = "idle"
  /\ \E id \in Ids, rows \in RowSets :
       Mapper([Args("select_by_id") EXCEPT !.ids = <<id>>], select_by_id_body(id, rows))

page ==
  /\ pc = "idle"
  /\ \E p \in Pages, size \in PageSizes, w \in QueryWrappers, cnt \in Counts, rows \in RowSets :
       Mapper([Args("page") EXCEPT !.w = w, !.page = p, !.size = size],
               page_body(p, size, w, cnt, rows))

count ==
  /\ pc = "idle"
  /\ \E w \in QueryWrappers, cnt \in Counts :
       Mapper([Args("count") EXCEPT !.w = w], count_body(w, cnt))

remove ==
  /\ pc = "idle"
  /\ \E w \in QueryWrappers, affected \in Counts :
       Mapper([Args("remove") EXCEPT !.w = w], remove_body(w, affected))

remove_by_id ==
  /\ pc = "idle"
  /\ \E id \in Ids, affected \in Counts :
       Mapper([Args("remove_by_id") EXCEPT !.ids = <<id>>], remove_by_id_body(id, affected))

remove_by_ids ==
  /\ pc = "idle"
  /\ \E ids \in IdLists, affected \in Counts :
       Mapper([Args("remove_by_ids") EXCEPT !.ids = ids], remove_by_ids_body(ids, affected))

update ==
  /\ pc = "idle"
  /\ \E entity \in Entities, w \in UpdateWrappers, affected \in Counts :
       Mapper([Args("update") EXCEPT !.entities = <<entity>>, !.w = w], update_body(entity, w, affected))

update_by_id ==
  /\ pc = "idle"
  /\ \E entity \in Entities, affected \in Counts :
       Mapper([Args("update_by_id") EXCEPT !.entities = <<entity>>], update_by_id_body(entity, affected))

save_batch ==
  /\ pc = "idle"
  /\ \E entities \in Batches :
       Mapper([Args("save_batch") EXCEPT !.entities = entities], save_batch_body(entities))

save ==
  /\ pc = "idle"
  /\ \E entity \in Entities, rows \in RowSets :
       Mapper([Args("save") EXCEPT !.entities = <<entity>>], save_body(entity, rows))

save_or_update ==
  /\ pc = "idle"
  /\ \E entity \in Entities, rows \in RowSets, affected \in Counts :
       Mapper([Args("save_or_update") EXCEPT !.entities = <<entity>>],
              save_or_update_body(entity, rows, affected))

save_map ==
  /\ pc = "idle"
  /\ \E entity \in Entities :
       Mapper([Args("save_map") EXCEPT !.entities = <<entity>>, !.tbl = "t_map"],
              save_map_body("t_map", entity))

save_map_batch ==
  /\ pc = "idle"
  /\ \E entities \in Batches :
       Mapper([Args("save_map_batch") EXCEPT !.entities = entities, !.tbl = "t_map"],
              save_map_batch_body("t_map", entities))

build_insert_clause_map ==
  /\ pc = "idle"
  /\ \E entities \in Batches :
       Mapper([Args("build_insert_clause_map") EXCEPT !.entities = entities, !.tbl = "t_map"],
              build_insert_clause_map_body("t_map", entities))

\* Akita::build_update_clause
akita_build_update_clause ==
  /\ pc = "idle"
  /\ \E w \in UpdateWrappers :
       Mapper([Args("build_update_clause") EXCEPT !.w = w, !.tbl = "t_map"],
              akita_build_update_clause_body("t_map", w))

exec_iter ==
  /\ pc = "idle"
  /\ \E rows \in RowSets :
       Mapper(Args("exec_iter"),
              Body(exec_iter_steps(1, <<Kw("select 1")>>, <<>>, Rows(rows)), Ok(0, rows)))

\* the caller takes the result; the next call starts from the pool as it is
Return ==
  /\ pc = "returned"
  /\ pc' = "idle"
  /\ call' = NoCall
  /\ log' = <<>>
  /\ ret' = NoRet
  /\ UNCHANGED <<desc, dialect, free, conn_tx, txn>>

\* variant: the handle is created as already committed
new_transaction_committed(on) ==
  [committed |-> TRUE, rolled_back |-> FALSE, on |-> on, ended |-> 0]

\* the AkitaTransaction start_transaction returns.  on: the connection the
\* transaction was started on; ended: the terminal statements (COMMIT,
\* ROLLBACK) the executor has accepted for it
new_transaction(on) ==
  [committed |-> FALSE, rolled_back |-> FALSE, on |-> on, ended |-> 0]

\* Akita::start_transaction
start_transaction ==
  /\ pc = "idle"
  /\ txn = None
  /\ Invoke(Args("start_transaction"), start_transaction_body)
  /\ LET started == { log'[i].conn : i \in { j \in 1..Len(log') : log'[j].e = "exec" /\ log'[j].ok } }
     IN /\ conn_tx' = conn_tx \cup started
        /\ txn' = IF ret'.ok
                  THEN Some(new_transaction(CHOOSE c \in started : TRUE))
                  ELSE None

\* a terminal statement goes through the Akita the handle refers to, on a
\* connection of its pool
terminal_body(stmt) ==
  Body(<<Acq(1), Exec(1, <<Kw(stmt)>>, <<>>, NoAns), Rel(1)>>, Ok(0, <<>>))

\* the connections on which the call had a statement accepted
Accepted(l) == { l[i].conn : i \in { j \in 1..Len(l) : l[j].e = "exec" /\ l[j].ok } }

\* AkitaTransaction::commit: the flag is set once the COMMIT went through
commit ==
  /\ pc = "idle"
  /\ txn # None /\ ~txn[1].committed /\ ~txn[1].rolled_back
  /\ Invoke(Args("commit"), terminal_body("COMMIT"))
  /\ conn_tx' = conn_tx \ Accepted(log')
  /\ txn' = IF ret'.ok
            THEN Some([txn[1] EXCEPT !.committed = TRUE, !.ended = @ + 1])
            ELSE txn

\* AkitaTransaction::rollback: the flag is set once the ROLLBACK went through
rollback ==
  /\ pc = "idle"
  /\ txn # None /\ ~txn[1].committed /\ ~txn[1].rolled_back
  /\ Invoke(Args("rollback"), terminal_body("ROLLBACK"))
  /\ conn_tx' = conn_tx \ Accepted(log')
  /\ txn' = IF ret'.ok
            THEN Some([txn[1] EXCEPT !.rolled_back = TRUE, !.ended = @ + 1])
            ELSE txn

\* the caller discards the handle (Drop): an implicit ROLLBACK is sent when
\* neither flag is set
drop ==
  /\ pc = "idle"
  /\ txn # None
  /\ Invoke(Args("drop"),
            IF ~txn[1].committed /\ ~txn[1].rolled_back
            THEN terminal_body("ROLLBACK")
            ELSE Body(<<>>, Ok(0, <<>>)))
  /\ conn_tx' = conn_tx \ Accepted(log')
  /\ txn' = None

(***************************************************************************)
(* Construction.  A connection URL is the sequence of its parts: the       *)
(* scheme, the colon, the rest; a string without `scheme:` in front does   *)
(* not parse.                                                              *)
(***************************************************************************)
Urls ==
  { <<"mysql", ":", "//u@h:3306/db">>, <<"sqlite", ":", "//f.db">>,
    <<"postgres", ":", "//h/db">>, <<"//h/db">>, <<>> }

\* Url::parse: the scheme is what stands before the first colon
Url_parse(s) ==
  IF Len(s) >= 2 /\ s[2] = ":" /\ s[1] # ""
  THEN Some([scheme |-> s[1], rest |-> SubSeq(s, 3, Len(s))])
  ELSE None

\* variant: a scheme that names no backend is taken for mysql
try_from_default_mysql(s) ==
  LET url == Url_parse(s)
  IN IF url = None THEN [ok |-> FALSE, err |-> "UrlParseError", platform |-> "", scheme |-> ""]
     ELSE [ok |-> TRUE, err |-> "", scheme |-> url[1].scheme,
           platform |-> IF url[1].scheme = "sqlite" THEN "Sqlite" ELSE "Mysql"]

\* impl TryFrom<&str> for Platform
try_from(s) ==
  LET url == Url_parse(s)
  IN IF url = None THEN [ok |-> FALSE, err |-> "UrlParseError", platform |-> "", scheme |-> ""]
     ELSE [ok |-> TRUE, err |-> "", scheme |-> url[1].scheme,
           platform |-> CASE url[1].scheme = "mysql" -> "Mysql"
                          [] url[1].scheme = "sqlite" -> "Sqlite"
                          [] OTHER -> "Unsupported"]

\* a step of the construction: a pool is built (init_pool), a connection
\* is taken from it (get)
Built(what, ok) ==
  [e |-> what, conn |-> 0, sql |-> <<>>, params |-> <<>>, ok |-> ok, ans |-> NoAns]

\* Akita::init_database and Akita::init_pool resolve the platform alike
resolve(url) ==
  LET platform == try_from(url)
  IN IF ~platform.ok THEN Err("UrlParseError", "")
     ELSE IF platform.platform = "Unsupported" THEN Err("UnknownDatabase", platform.scheme)
     ELSE Ok(0, <<>>)

\* Akita::new: init_database builds a pool and takes a connection, then
\* init_pool builds the pool the Akita keeps; the failAt-th of these three
\* steps fails (0: none does)
new_body(url, failAt) ==
  LET r == resolve(url)
      steps == <<"init_pool", "get", "init_pool">>
      done == IF failAt = 0 THEN 3 ELSE failAt
  IN IF ~r.ok THEN [log |-> <<>>, ret |-> r]
     ELSE [log |-> [i \in 1..done |-> Built(steps[i], i # failAt)],
           ret |-> IF failAt = 0 THEN Ok(0, <<>>) ELSE Err("R2D2Error", "")]

\* Akita::new: on success the caller goes on with the new Akita
new ==
  /\ pc = "idle"
  /\ \E url \in Urls, failAt \in 0..3 :
       LET b == new_body(url, failAt)
       IN /\ log' = b.log
          /\ ret' = b.ret
          /\ call' = [Args("new") EXCEPT !.url = url]
          /\ IF b.ret.ok
             THEN /\ dialect' = try_from(url).platform
                  /\ free' = Conns
                  /\ conn_tx' = {}
                  /\ txn' = None
             ELSE UNCHANGED <<dialect, free, conn_tx, txn>>
  /\ pc' = "returned"
  /\ UNCHANGED desc

\* the mapper calls that return conn.affected_rows()
CountOps == { "remove", "remove_by_id", "remove_by_ids", "update", "update_by_id" }

\* the calls after which the caller reads a count through the pool
ReadAfter == { "remove", "remove_by_id", "remove_by_ids" }

\* conn.affected_rows() on connection c after the events of l: the count of
\* the last statement c accepted; when l has none on c, the count an
\* earlier statement left there
rows_held(l, c, earlier) ==
  LET mine == { i \in 1..Len(l) : l[i].e = "exec" /\ l[i].conn = c /\ l[i].ok }
  IN IF mine = {} THEN earlier
     ELSE l[CHOOSE i \in mine : \A j \in mine : j <= i].ans.num

\* Akita::affected_rows and Akita::last_insert_id: self.acquire().expect(..)
\* takes a connection from the pool, the value is read from it, and the
\* connection is dropped.  The caller makes the call after a delete that
\* returned its count, whose events stay in the log
fresh_read(op, c, failAt, value) ==
  LET r == Run(<<Acq(1), Rel(1)>>, failAt, [x \in SlotIds |-> c], free)
  IN /\ r.valid
     /\ log' = log \o r.log
     /\ ret' = IF r.err = "" THEN Ok(value, <<>>) ELSE Err("panic", "cannot get db pool")
     /\ free' = r.idle
     /\ call' = [Args(op) EXCEPT !.after = call.op]
     /\ pc' = "returned"
     /\ UNCHANGED <<desc, dialect, conn_tx, txn>>

affected_rows ==
  /\ pc = "returned"
  /\ call.op \in ReadAfter /\ ret.ok
  /\ \E c \in Conns, failAt \in 0..1, earlier \in Counts :
       fresh_read("affected_rows", c, failAt, rows_held(log, c, earlier))

\* the statements of ReadAfter insert nothing: the connection holds the
\* insert id an earlier statement left
last_insert_id ==
  /\ pc = "returned"
  /\ call.op \in ReadAfter /\ ret.ok
  /\ \E c \in Conns, failAt \in 0..1, earlier \in Counts :
       fresh_read("last_insert_id", c, failAt, earlier)

Next ==
  \/ new
  \/ list \/ select_one \/ select_by_id \/ page \/ count
  \/ remove \/ remove_by_id \/ remove_by_ids
  \/ update \/ update_by_id
  \/ save_batch \/ save \/ save_or_update
  \/ save_map \/ save_map_batch \/ build_insert_clause_map
  \/ akita_build_update_clause
  \/ start_transaction \/ commit \/ rollback \/ drop
  \/ exec_iter
  \/ affected_rows \/ last_insert_id
  \/ Return

Spec == Init /\ [][Next]_vars

(***************************************************************************)
(* The operations by family: the calls a caller makes of one family.       *)
(***************************************************************************)
NextSaveOrUpdate == save_or_update \/ save \/ update_by_id \/ Return
SpecSaveOrUpdate == Init /\ [][NextSaveOrUpdate]_vars

NextQuery == list \/ select_one \/ page \/ count \/ remove \/ Return
SpecQuery == Init /\ [][NextQuery]_vars

NextById == select_by_id \/ remove_by_id \/ remove_by_ids \/ update_by_id \/ Return
SpecById == Init /\ [][NextById]_vars

NextWrite == save \/ save_batch \/ update \/ update_by_id \/ Return
SpecWrite == Init /\ [][NextWrite]_vars

NextUpdate == update \/ akita_build_update_clause \/ Return
SpecUpdate == Init /\ [][NextUpdate]_vars

NextMap == save_map \/ save_map_batch \/ build_insert_clause_map \/ Return
SpecMap == Init /\ [][NextMap]_vars

NextNew == new \/ exec_iter \/ Return
SpecNew == Init /\ [][NextNew]_vars

\* the calls that send more than one statement, and the raw escape hatch
NextMulti == save \/ page \/ exec_iter \/ Return
SpecMulti == Init /\ [][NextMulti]_vars

\* the calls that return a count, and the reads of a count through the pool
NextCount ==
  \/ remove \/ remove_by_id \/ remove_by_ids \/ update \/ update_by_id
  \/ affected_rows \/ last_insert_id \/ Return
SpecCount == Init /\ [][NextCount]_vars

NextTx == start_transaction \/ commit \/ rollback \/ drop \/ exec_iter \/ Return
SpecTx == Init /\ [][NextTx]_vars

(***************************************************************************)
(* Vocabulary of the claims.                                               *)
(***************************************************************************)
\* the call of op has returned
Returned(op) == pc = "returned" /\ call.op = op

\* the statements the call sent to the executor, in order
Sent == SelectSeq(log, LAMBDA ev : ev.e = "exec")

\* the connections the call acquired, in order
Acquired == SelectSeq(log, LAMBDA ev : ev.e = "acq" /\ ev.ok)

\* the leading keyword of every statement sent
Verbs == [i \in 1..Len(Sent) |-> Sent[i].sql[1].s]

LastIdVerb == last_insert_sql[1].s

HasIdField == \E i \in 1..col_len : columns[i].field_type = "TableId"
IdName == columns[CHOOSE i \in 1..col_len : columns[i].field_type = "TableId"].name
HasEntry(e, name) == \E j \in 1..Len(e) : e[j].k = name
Entry(e, name) == e[CHOOSE j \in 1..Len(e) : e[j].k = name].v

(***************************************************************************)
(* C1: save_or_update decides on the value the entity holds for the        *)
(* identifier field.  When it is Nil the call takes the insert path: it    *)
(* sends no UPDATE, what it sends is the INSERT and then the last-insert-id*)
(* read (cut short only by a failing step), and when both succeed it       *)
(* returns the identifier the read retrieved.  When it is not Nil the call *)
(* takes the update_by_id path: it sends no INSERT, at most the one UPDATE,*)
(* and when the update succeeds it returns that same identifier value.     *)
(***************************************************************************)
C1_SaveOrUpdateDecidesOnId ==
  (Returned("save_or_update") /\ HasIdField /\ HasEntry(call.entities[1], IdName)) =>
    LET id == Entry(call.entities[1], IdName)
    IN IF id = Nil
       THEN /\ Verbs \in { <<>>, <<"INSERT INTO">>, <<"INSERT INTO", LastIdVerb>> }
            /\ ret.ok <=> (Len(Sent) = 2 /\ Sent[2].ok)
            /\ ret.ok => ret = Ok(0, first(Sent[2].ans.rows))
       ELSE /\ Verbs \in { <<>>, <<"update">> }
            /\ ret.ok <=> (Len(Sent) = 1 /\ Sent[1].ok)
            /\ ret.ok => ret = Ok(0, Some(id))

\* an entity with identifier 1 was updated and 1 came back
C1_Witness ==
  /\ Returned("save_or_update") /\ HasIdField /\ HasEntry(call.entities[1], IdName)
  /\ Entry(call.entities[1], IdName) = IntV(1)
  /\ Verbs = <<"update">>
  /\ ret = Ok(0, Some(IntV(1)))

\* the condition of a statement: what stands between WHERE and limit
WhereOf(sql) ==
  LET ws == { i \in 1..Len(sql) : sql[i] = Kw("WHERE") }
      ls == { i \in 1..Len(sql) : sql[i] = Kw("limit") }
      from == CHOOSE i \in ws : TRUE
      to == IF ls = {} THEN Len(sql) ELSE (CHOOSE i \in ls : TRUE) - 1
  IN IF ws = {} THEN <<>> ELSE SubSeq(sql, from + 1, to)

CountVerb == "select count(1) as count from"

(***************************************************************************)
(* C2: page sends the COUNT query before any row-fetch query.  When the    *)
(* count is zero it sends no row-fetch query and returns a page with       *)
(* total_count = 0 and no records.  When the count is greater than zero it *)
(* goes on to the row fetch: it sends exactly one row-fetch query, with    *)
(* the WHERE condition of the COUNT query (unless the pool fails to hand   *)
(* out the connection for it, which is the error the call then returns).   *)
(***************************************************************************)
C2_PageCountsFirst ==
  Returned("page") =>
    /\ Verbs \in { <<>>, <<CountVerb>>, <<CountVerb, "SELECT">> }
    /\ (Len(Sent) >= 1 /\ Sent[1].ok /\ Sent[1].ans.num = 0) =>
          /\ Len(Sent) = 1
          /\ ret = Ok(0, <<>>)
    /\ (Len(Sent) >= 1 /\ Sent[1].ok /\ Sent[1].ans.num > 0) =>
          \/ /\ Len(Sent) = 2
             /\ WhereOf(Sent[2].sql) = WhereOf(Sent[1].sql)
             /\ WhereOf(Sent[1].sql) = get_sql_segment(call.w)
             /\ ret.ok => ret = Ok(Sent[1].ans.num, Sent[2].ans.rows)
          \/ /\ Len(Sent) = 1
             /\ ret = Err("R2D2Error", "")

\* a page of a filtered query with a positive count and its rows fetched
C2_Witness ==
  /\ Returned("page")
  /\ Len(Sent) = 2 /\ Sent[1].ans.num > 0
  /\ Len(WhereOf(Sent[2].sql)) > 0
  /\ ret.ok /\ Len(ret.rows) > 0

ByIdOps == { "select_by_id", "remove_by_id", "remove_by_ids", "update_by_id" }

(***************************************************************************)
(* C3: for a descriptor with no identifier field, select_by_id,            *)
(* remove_by_id, remove_by_ids and update_by_id send no statement to the   *)
(* executor and fail; the error is MissingIdent once the call has passed   *)
(* the table-name validation and has been handed its connection (a call    *)
(* that fails in one of these two earlier steps returns that step's error).*)
(***************************************************************************)
C3_NoIdentifierNoSql ==
  (pc = "returned" /\ call.op \in ByIdOps /\ ~HasIdField) =>
    /\ Len(Sent) = 0
    /\ ~ret.ok
    /\ (table # "" /\ Len(Acquired) = 1) <=> ret = MissingIdent
    /\ table = "" => ret = MissingTable
    /\ (table # "" /\ Len(Acquired) = 0) => ret = Err("R2D2Error", "")

\* remove_by_ids on a two-field entity type without identifier was refused
C3_Witness ==
  /\ Returned("remove_by_ids") /\ ~HasIdField /\ col_len = 2
  /\ Len(call.ids) = 2
  /\ ret = MissingIdent
  /\ Len(Acquired) = 1 /\ Len(Sent) = 0

\* the existing plain fields of the descriptor, by index
PlainFields == { i \in 1..col_len : columns[i].exist /\ columns[i].field_type = "TableField" }

\* the largest placeholder number of a statement
MaxPh(sql) ==
  LET phs == Placeholders(sql)
  IN CHOOSE n \in { phs[i].n : i \in 1..Len(phs) } : \A i \in 1..Len(phs) : phs[i].n <= n

(***************************************************************************)
(* C4: for the numbered-placeholder dialect, in every UPDATE statement of  *)
(* update_by_id the highest placeholder number is (number of plain         *)
(* fields) + 1, it is the number of the WHERE-by-identifier placeholder,   *)
(* and the identifier value is the last parameter, so that the parameter   *)
(* vector is as long as the highest placeholder number.                    *)
(***************************************************************************)
C4_UpdateByIdNumbering ==
  (Returned("update_by_id") /\ dialect = "Sqlite" /\ Len(Sent) = 1) =>
    LET sql == Sent[1].sql
        params == Sent[1].params
    IN /\ MaxPh(sql) = Cardinality(PlainFields) + 1
       /\ sql[Len(sql)] = Ph(MaxPh(sql))
       /\ Len(params) = MaxPh(sql)
       /\ params[Len(params)] = Entry(call.entities[1], IdName)

(***************************************************************************)
(* C7: update_by_id on an entity whose identifier value is Nil, the key    *)
(* being absent from the value mapping or present with the value Nil,      *)
(* fails with the missing-identifier-value error and sends no UPDATE.      *)
(***************************************************************************)
C7_NilIdentifierRejected ==
  (Returned("update_by_id") /\ HasIdField /\ table # "" /\ Len(Acquired) = 1
     /\ (HasEntry(call.entities[1], IdName) => Entry(call.entities[1], IdName) = Nil)) =>
    /\ Len(Sent) = 0
    /\ ret = MissingIdentValue

\* the value the claim expects for field f of entity e under a trigger:
\* the fill rule's value when its mode is the trigger or "default" (always),
\* the instance's own value otherwise (Nil when the mapping has no entry)
Expected(f, e, trigger) ==
  IF f.fill # None /\ f.fill[1].mode \in {trigger, "default"}
  THEN f.fill[1].value[1]
  ELSE IF HasEntry(e, f.name) THEN Entry(e, f.name) ELSE Nil

\* the position of plain field i among the plain fields
PlainPos(i) == Cardinality({ j \in PlainFields : j <= i })

(***************************************************************************)
(* C5: in every statement save, save_batch, update and update_by_id send,  *)
(* the parameter bound at a field's position is the fill rule's value when *)
(* the field has a fill rule whose trigger matches the operation (insert   *)
(* or default for save and save_batch, update or default for update and    *)
(* update_by_id), whatever the instance holds, and the instance's own      *)
(* value when the field has no fill rule or one of another trigger.  save  *)
(* and save_batch bind every field of the descriptor, entity after entity; *)
(* update (without set-clauses) and update_by_id bind the existing plain   *)
(* fields.                                                                 *)
(***************************************************************************)
C5_FillOverridesInstance ==
  /\ (Returned("save") /\ Len(Sent) >= 1) =>
        /\ Len(Sent[1].params) = col_len
        /\ \A i \in 1..col_len :
             Sent[1].params[i] = Expected(columns[i], call.entities[1], "insert")
  /\ (Returned("save_batch") /\ Len(Sent) >= 1) =>
        /\ Len(Sent[1].params) = Len(call.entities) * col_len
        /\ \A y \in 1..Len(call.entities) : \A i \in 1..col_len :
             Sent[1].params[(y - 1) * col_len + i] = Expected(columns[i], call.entities[y], "insert")
  /\ (Returned("update") /\ Len(Sent) >= 1 /\ Len(call.w.fields_set) = 0) =>
        /\ Len(Sent[1].params) = Cardinality(PlainFields)
        /\ \A i \in PlainFields :
             Sent[1].params[PlainPos(i)] = Expected(columns[i], call.entities[1], "update")
  /\ (Returned("update_by_id") /\ Len(Sent) >= 1) =>
        /\ Len(Sent[1].params) = Cardinality(PlainFields) + 1
        /\ \A i \in PlainFields :
             Sent[1].params[PlainPos(i)] = Expected(columns[i], call.entities[1], "update")

\* an update bound the fill value over a non-Nil instance value, next to a
\* field without fill rule bound to the instance's value
C5_Witness ==
  /\ Returned("update_by_id") /\ Len(Sent) = 1 /\ col_len = 2
  /\ \E i \in PlainFields :
       /\ columns[i].fill # None /\ columns[i].fill[1].mode = "update"
       /\ HasEntry(call.entities[1], columns[i].name)
       /\ Entry(call.entities[1], columns[i].name) = IntV(1)
       /\ Sent[1].params[PlainPos(i)] = FillValue

\* the mapper operations that take an entity type
MapperOps ==
  { "list", "select_one", "select_by_id", "page", "count", "remove", "remove_by_id",
    "remove_by_ids", "update", "update_by_id", "save", "save_batch", "save_or_update" }

(***************************************************************************)
(* C6: every mapper operation called on an entity type whose table name is *)
(* empty returns MissingTable, having acquired no connection and sent no   *)
(* statement.                                                              *)
(***************************************************************************)
C6_EmptyTableRejected ==
  (pc = "returned" /\ call.op \in MapperOps /\ complete_name(table) = "") =>
    /\ ret = MissingTable
    /\ Len(Acquired) = 0
    /\ Len(Sent) = 0

(***************************************************************************)
(* C8: a call acquires at most one connection of the pool (exactly one     *)
(* once it has passed its validation), and when it has returned, with a    *)
(* result or with an error, every connection is back in the pool.          *)
(***************************************************************************)
C8_OneConnectionPerCall ==
  pc = "returned" =>
    /\ Len(Acquired) <= 1
    /\ Len(Sent) > 0 => Len(Acquired) = 1
    /\ free = Conns

(***************************************************************************)
(* C9: from a successful start_transaction until commit or rollback, the   *)
(* connection on which the transaction was started is not in the pool, so  *)
(* that no other call can be handed it.                                    *)
(***************************************************************************)
C9_TransactionHoldsConnection ==
  (txn # None /\ ~txn[1].committed /\ ~txn[1].rolled_back) =>
    /\ txn[1].on \notin free
    /\ \A i \in 1..Len(Acquired) : call.op # "start_transaction" => Acquired[i].conn # txn[1].on

\* whether seq ends with tail
EndsWith(seq, tail) ==
  /\ Len(seq) >= Len(tail)
  /\ SubSeq(seq, Len(seq) - Len(tail) + 1, Len(seq)) = tail

(***************************************************************************)
(* C10: every statement that list, select_one, page, count, remove and     *)
(* update send carries as many parameters as its text has placeholders,    *)
(* and the values bound by the predicates of the wrapper are the last of   *)
(* these parameters, in fragment order.                                    *)
(***************************************************************************)
C10_ParamsMatchPlaceholders ==
  (pc = "returned"
     /\ call.op \in { "list", "select_one", "page", "count", "remove", "update" }) =>
    \A i \in 1..Len(Sent) :
      /\ Len(Placeholders(Sent[i].sql)) = Len(Sent[i].params)
      /\ EndsWith(Sent[i].params, SegmentParams(call.w.preds))

\* the indices of seq at which tok stands, in increasing order
Positions(seq, tok) == SelectSeq([i \in 1..Len(seq) |-> i], LAMBDA i : seq[i] = tok)

\* the value tuples of an INSERT: what stands between each ( and its )
\* after VALUES
TuplesOf(sql) ==
  LET at == Positions(sql, Kw("VALUES"))
      vals == IF Len(at) = 0 THEN <<>> ELSE SubSeq(sql, at[1] + 1, Len(sql))
      open == Positions(vals, Kw("("))
      close == Positions(vals, Kw(")"))
  IN IF Len(open) # Len(close) THEN <<>>
     ELSE [y \in 1..Len(open) |-> SubSeq(vals, open[y] + 1, close[y] - 1)]

\* the INSERT statements a call of the map-based path has built or sent
MapInserts ==
  IF call.op = "build_insert_clause_map"
  THEN (IF ret.ok THEN <<ret.sql>> ELSE <<>>)
  ELSE [i \in 1..Len(Sent) |-> Sent[i].sql]

MapOps == { "build_insert_clause_map", "save_map", "save_map_batch" }

(***************************************************************************)
(* C11: the multi-row INSERT built for n entities with c columns (c the    *)
(* number of keys of the first entity) has exactly n value tuples of c     *)
(* placeholders each.  On the numbered dialect the placeholder of tuple y, *)
(* column x (both 0-based) is $(y*c + x + 1), so the numbers of the        *)
(* statement read 1..n*c left to right; on the un-numbered dialect every   *)
(* placeholder is `?`.                                                     *)
(***************************************************************************)
C11_InsertTuplesNumbered ==
  (pc = "returned" /\ call.op \in MapOps /\ Len(call.entities) > 0) =>
    \A s \in 1..Len(MapInserts) :
      LET sql == MapInserts[s]
          n == Len(call.entities)
          c == Len(keys(call.entities[1]))
          tuples == TuplesOf(sql)
          ph == Placeholders(sql)
      IN /\ Len(tuples) = n
         /\ \A y \in 1..n :
              /\ Len(Placeholders(tuples[y])) = c
              /\ \A x \in 1..c :
                   Placeholders(tuples[y])[x].n =
                     IF dialect = "Sqlite" THEN (y - 1) * c + (x - 1) + 1 ELSE 0
         /\ Len(ph) = n * c
         /\ \A i \in 1..Len(ph) : ph[i].n = IF dialect = "Sqlite" THEN i ELSE 0

\* a batch of two two-column entities went out as one INSERT numbered $1..$4
C11_Witness ==
  /\ Returned("save_map_batch") /\ dialect = "Sqlite" /\ ret.ok
  /\ Len(call.entities) = 2 /\ Len(keys(call.entities[1])) = 2
  /\ Len(Sent) = 1
  /\ Len(TuplesOf(Sent[1].sql)) = 2
  /\ [i \in 1..4 |-> Placeholders(Sent[1].sql)[i].n] = <<1, 2, 3, 4>>

BatchOps == { "save_batch", "save_map_batch", "build_insert_clause_map" }

(***************************************************************************)
(* C12: a batch save called with zero entities (save_batch,                *)
(* save_map_batch, build_insert_clause_map) fails with the empty-batch     *)
(* error (DataError on the map-based path) and sends no statement to the   *)
(* executor; a call whose connection the pool refuses before the check     *)
(* returns the pool's error instead.                                       *)
(***************************************************************************)
C12_EmptyBatchRejected ==
  (pc = "returned" /\ call.op \in BatchOps /\ Len(call.entities) = 0) =>
    /\ Len(Sent) = 0
    /\ ~ret.ok
    /\ ret.err \in { "DataError", "EmptyBatch", "R2D2Error" }
    /\ ret.err = "R2D2Error" => Len(Acquired) = 0

\* the pools a call of Akita::new built, whether the building succeeded or not
PoolsBuilt == SelectSeq(log, LAMBDA ev : ev.e = "init_pool")

(***************************************************************************)
(* C13: Akita::new on a connection string that does not parse returns      *)
(* UrlParseError; on a well-formed URL whose scheme names no backend it    *)
(* returns the unsupported-backend error (UnknownDatabase, carrying the    *)
(* scheme); in both cases no pool is built.  Only a recognized scheme      *)
(* leads to the building of a pool, and a new returning Ok has the         *)
(* platform of its scheme.                                                 *)
(***************************************************************************)
C13_NewResolvesBackend ==
  Returned("new") =>
    LET url == Url_parse(call.url)
    IN /\ url = None => (ret = Err("UrlParseError", "") /\ Len(PoolsBuilt) = 0)
       /\ (url # None /\ url[1].scheme \notin {"mysql", "sqlite"}) =>
            (ret = Err("UnknownDatabase", url[1].scheme) /\ Len(PoolsBuilt) = 0)
       /\ (Len(PoolsBuilt) > 0 \/ ret.ok) =>
            (url # None /\ url[1].scheme \in {"mysql", "sqlite"})
       /\ ret.ok => dialect = (IF url[1].scheme = "mysql" THEN "Mysql" ELSE "Sqlite")

\* a postgres URL was refused with its scheme in the error
C13_Witness ==
  /\ Returned("new")
  /\ Len(call.url) = 3 /\ call.url[1] = "postgres"
  /\ ret = Err("UnknownDatabase", "postgres")
  /\ log = <<>>

\* the steps of the call that failed: an acquire the pool refused, a
\* statement the executor refused
Failed == { i \in 1..Len(log) : log[i].e \in {"acq", "exec"} /\ ~log[i].ok }

(***************************************************************************)
(* C14: no call retries.  Within one call no statement is sent twice, at   *)
(* most one step (acquire or statement) fails, nothing but the release of  *)
(* the connections held follows the failed step, and the call returns the  *)
(* error of that step.                                                     *)
(***************************************************************************)
C14_NoRetry ==
  (pc = "returned" /\ call.op # "new") =>
    /\ \A i, j \in 1..Len(Sent) : i # j => Sent[i].sql # Sent[j].sql
    /\ Cardinality(Failed) <= 1
    /\ \A i \in Failed :
         /\ \A j \in (i + 1)..Len(log) : log[j].e = "rel"
         /\ ret = Err(IF log[i].e = "acq" THEN "R2D2Error" ELSE "ExecuteSqlError", "")
    /\ ret.ok => Failed = {}

\* save whose INSERT went through and whose read of the identifier failed
C14_Witness ==
  /\ Returned("save")
  /\ Len(Sent) = 2 /\ Sent[1].ok /\ ~Sent[2].ok
  /\ ret = Err("ExecuteSqlError", "")

(***************************************************************************)
(* C15: in save (called directly or on the insert path of save_or_update)  *)
(* the read of the last inserted identifier is sent only as the second     *)
(* statement, after an INSERT that succeeded, and on the connection that   *)
(* ran the INSERT.  When the INSERT fails nothing follows it.  When the    *)
(* read fails, save returns the error of the read and nothing follows: no  *)
(* rollback, no compensating statement.                                    *)
(***************************************************************************)
C15_LastIdFollowsInsert ==
  (pc = "returned" /\ call.op \in {"save", "save_or_update"}) =>
    /\ \A i \in 1..Len(Sent) :
         Sent[i].sql = last_insert_sql =>
           /\ i = 2
           /\ Sent[1].sql[1].s = "INSERT INTO" /\ Sent[1].ok
           /\ Sent[2].conn = Sent[1].conn
           /\ Len(Acquired) = 1
    /\ (Len(Sent) >= 1 /\ ~Sent[1].ok) => Len(Sent) = 1
    /\ (Len(Sent) >= 2 /\ ~Sent[2].ok) =>
         /\ Len(Sent) = 2
         /\ ret = Err("ExecuteSqlError", "")

\* on Sqlite an INSERT and the read of the row id went out on one connection
C15_Witness ==
  /\ Returned("save") /\ dialect = "Sqlite"
  /\ Verbs = <<"INSERT INTO", "SELECT LAST_INSERT_ROWID();">>
  /\ Sent[1].ok /\ Sent[2].ok /\ Sent[1].conn = Sent[2].conn
  /\ ret.ok /\ ret.rows # <<>>

(***************************************************************************)
(* C16: the DELETE that remove_by_ids sends for a list of n ids has n      *)
(* placeholders, and its parameter vector is the n id values in the order  *)
(* given: no id is folded into a string bound as one parameter.            *)
(***************************************************************************)
C16_RemoveByIdsBindsEach ==
  Returned("remove_by_ids") =>
    \A i \in 1..Len(Sent) :
      /\ Len(Placeholders(Sent[i].sql)) = Len(call.ids)
      /\ Sent[i].params = call.ids

\* the terminal statements of the call that the executor accepted
TerminalsAccepted(l) ==
  Len(SelectSeq(l, LAMBDA ev : ev.e = "exec" /\ ev.ok
                                 /\ ev.sql \in { <<Kw("COMMIT")>>, <<Kw("ROLLBACK")>> }))

\* the ROLLBACK statements the call sent
RollbacksSent(l) == Len(SelectSeq(l, LAMBDA ev : ev.e = "exec" /\ ev.sql = <<Kw("ROLLBACK")>>))

\* the step in which the caller discards the handle
Discards == pc = "idle" /\ pc' = "returned" /\ call'.op = "drop"

C18_UpdateClauseNumbering ==
  (Returned("build_update_clause") /\ ret.ok) =>
    LET ph == Placeholders(ret.sql)
        k == Len(call.w.fields_set)
    IN /\ Len(ph) >= k
       /\ IF dialect = "Sqlite"
          THEN /\ \A i \in 1..k : ph[i].n = i
               /\ \A i \in (k + 1)..Len(ph) : ph[i].n > k
               /\ \A i, j \in 1..Len(ph) : i < j => ph[i].n < ph[j].n
          ELSE \A i \in 1..k : ph[i].n = 0

\* the columns a statement names, left to right
ColsOf(sql) == SelectSeq(sql, LAMBDA tok : tok.k = "col")

\* the names of the fields of the descriptor that are marked exist = false
Absent == { columns[i].name : i \in { j \in 1..col_len : ~columns[j].exist } }

(***************************************************************************)
(* C19: a field with exist = false takes no part in the statement that     *)
(* save, save_batch, update (called with an empty wrapper) and            *)
(* update_by_id send: the statement does not name its column, and the      *)
(* number of values bound equals the number of columns the statement       *)
(* names (once per entity for save_batch), so no value is bound for it.    *)
(***************************************************************************)
C19_AbsentFieldNotBound ==
  (pc = "returned" /\ call.op \in {"save", "save_batch", "update", "update_by_id"}
     /\ call.w = NoWrapper /\ Len(Sent) >= 1) =>
    LET sql == Sent[1].sql
        per == IF call.op = "save_batch" THEN Len(call.entities) ELSE 1
    IN /\ \A i \in 1..Len(ColsOf(sql)) : ColsOf(sql)[i].s \notin Absent
       /\ Len(Sent[1].params) = per * Len(ColsOf(sql))

\* the columns of the SET clause of an UPDATE: those named before its where
SetColsOf(sql) ==
  LET at == Positions(sql, Kw("where"))
      upto == IF Len(at) = 0 THEN Len(sql) ELSE at[1] - 1
      cols == ColsOf(SubSeq(sql, 1, upto))
  IN [i \in 1..Len(cols) |-> cols[i].s]

C21_NoIdentifierInserts ==
  (Returned("save_or_update")
     /\ (~HasIdField \/ ~HasEntry(call.entities[1], IdName))) =>
    /\ Verbs \in { <<>>, <<"INSERT INTO">>, <<"INSERT INTO", LastIdVerb>> }
    /\ ret.err # "MissingIdent"
    /\ ret.ok <=> (Len(Sent) = 2 /\ Sent[2].ok)
    /\ ~ret.ok => ret.err \in { "R2D2Error", "ExecuteSqlError" }

\* an entity without entry for the identifier column of its type was inserted
C21_Witness ==
  /\ Returned("save_or_update")
  /\ HasIdField /\ ~HasEntry(call.entities[1], IdName) /\ Len(call.entities[1]) > 0
  /\ Verbs = <<"INSERT INTO", LastIdVerb>>
  /\ ret.ok


C23_MapBatchParams ==
  (Returned("save_map_batch") /\ Len(call.entities) >= 1) =>
    LET cols == keys(call.entities[1])
        c == Len(cols)
        n == Len(call.entities)
    IN /\ Len(Sent) <= 1
       /\ ret.ok => Len(Sent) = 1
       /\ Len(Sent) = 0 => ret.err = "R2D2Error"
       /\ \A s \in 1..Len(Sent) :
            LET sql == Sent[s].sql
                params == Sent[s].params
            IN /\ ColsOf(sql) = [x \in 1..c |-> Col(cols[x])]
               /\ Len(params) = n * c
               /\ Len(params) = Len(SelectSeq(sql, LAMBDA tok : tok.k = "ph"))
               /\ \A y \in 1..n, x \in 1..c :
                    params[(y - 1) * c + x] =
                      IF HasEntry(call.entities[y], cols[x])
                      THEN Entry(call.entities[y], cols[x]) ELSE Nil
               /\ \A y \in 2..n : \A i \in 1..Len(call.entities[y]) :
                    ~HasEntry(call.entities[1], call.entities[y][i].k) =>
                      Col(call.entities[y][i].k) \notin { sql[j] : j \in 1..Len(sql) }

\* two entities, the second without the first column of the first: the
\* third of the four values bound is Nil
C23_Witness ==
  /\ Returned("save_map_batch")
  /\ ret.ok
  /\ Len(call.entities) = 2
  /\ Len(call.entities[1]) = 2
  /\ ~HasEntry(call.entities[2], call.entities[1][1].k)
  /\ HasEntry(call.entities[2], call.entities[1][2].k)
  /\ Len(Sent) = 1
  /\ Len(Sent[1].params) = 4
  /\ Sent[1].params[3] = Nil
  /\ Sent[1].params[4] # Nil

\* the calls that take their condition from a wrapper
WrapperQueries == { "list", "select_one", "page", "count", "remove" }

(***************************************************************************)
(* C24: when the segment the wrapper renders is empty (no predicate was    *)
(* recorded, which is also what a wrapper is left with when every          *)
(* predicate was added with a false guard), no statement that list,        *)
(* select_one, page, count or remove sends holds a WHERE keyword.  remove  *)
(* then sends the bare `delete from <table>`: the call does not fail for   *)
(* want of a condition (its errors are the missing table name, the pool's  *)
(* and the executor's), and when the statement is accepted it returns the  *)
(* count the executor reports for the unconditional delete.                *)
(***************************************************************************)
C24_EmptySegmentNoWhere ==
  (pc = "returned" /\ call.op \in WrapperQueries /\ Len(get_sql_segment(call.w)) = 0) =>
    /\ \A s \in 1..Len(Sent) : \A j \in 1..Len(Sent[s].sql) :
         Sent[s].sql[j] \notin { Kw("WHERE"), Kw("where") }
    /\ call.op = "remove" =>
         /\ \A s \in 1..Len(Sent) :
              Sent[s].sql = <<Kw("delete from"), Tbl(complete_name(table))>>
         /\ Len(Sent) <= 1
         /\ ret.ok => (Len(Sent) = 1 /\ ret.num = Sent[1].ans.num)
         /\ ~ret.ok => ret.err \in { "MissingTable", "R2D2Error", "ExecuteSqlError" }
         /\ ret.err = "MissingTable" <=> complete_name(table) = ""

\* remove with a wrapper without predicates deletes two rows
C24_Witness ==
  /\ Returned("remove")
  /\ call.w.preds = <<>>
  /\ ret.ok /\ ret.num = 2
  /\ Len(Sent) = 1
  /\ Sent[1].sql = <<Kw("delete from"), Tbl(complete_name(table))>>
====
